---- MODULE Spec2Model ----
(***************************************************************************)
(* Model of pytest_embedded/log.py:                                        *)
(*   PexpectProcess        the multiplexed pattern stream on a channel     *)
(*                         pair (read end _fr / write end _fw)             *)
(*   DuplicateStdout       the guard that redirects sys.stdout             *)
(*   DuplicateStdoutMixin  the forwarder thread starter                    *)
(*   DuplicateStdoutPopen  the subprocess adapter                          *)
(*                                                                         *)
(* Text is a sequence of code points, binary data a sequence of byte       *)
(* values.  The platform is POSIX (os.name == 'posix', log.py line 82).    *)
(* File objects behave as CPython's buffered files do: one method call is  *)
(* atomic, write() and flush() raise ValueError once the object is closed, *)
(* close() releases the descriptor even when it raises.                    *)
(***************************************************************************)
EXTENDS Integers, Sequences, FiniteSets, TLC

(* ------------------------------ bounds --------------------------------- *)
\* number of send calls made on the stream
MaxSends == 2
\* number of create_forward_io_thread calls each caller makes
MaxCalls == 2
\* the instance's default timeout (self.timeout), in clock ticks
DefaultTimeout == 1
\* number of send calls each producer thread makes on its tagged stream
MaxLogSends == 1
\* number of send calls made on the subprocess adapter
MaxStdinSends == 2

(* ------------------------------ values --------------------------------- *)
None == "None"

\* code points used by the inputs: 'a', '\n', U+00E9 (two bytes in UTF-8)
LF == 10
CharA == 97
CharEacute == 233

\* a value of type str / of type bytes
Str(v) == [t |-> "str", v |-> v]
Bytes(v) == [t |-> "bytes", v |-> v]

\* what callers pass to send: the texts 'a\n' and U+00E9
StrInputs == { Str(<< CharA, LF >>), Str(<< CharEacute >>) }
\* the DuplicateStdout instances of the process
Guards == {"g1", "g2"}
\* sys.stdout at start-up, and what logging's machinery may install
OriginalStdout == "stdout"
SinkStdout == "capture"
\* what print() and other callers pass to DuplicateStdout.write
GuardData == StrInputs \cup { Str(<< >>), Str(<< LF >>) }

\* self._forward_io_thread = None (line 220)
NoThread == 0
\* the Thread objects that can exist: each caller creates at most one
\* the threads that call create_forward_io_thread
Callers == {"c1", "c2"}
\* the Thread objects that can exist: each caller creates at most one
ThreadIds == 1..Cardinality(Callers)
\* what the child of `echo hello` writes: b'hello\n'
Hello == << 104, 101, 108, 108, 111, LF >>

\* the producer threads of a run with two streams; thread p sends on the
\* stream created with count = p
Producers == {1, 2}
\* what they send: 'a\n', and 'a\r \n' followed by U+00E9 (a blank line in
\* the middle, a last line without a line end)
LogInputs == { Str(<< CharA, LF >>), Str(<< CharA, 13, 32, LF, CharEacute >>) }
\* what callers pass to DuplicateStdoutPopen.send: text and binary data
PopenInputs == { Str(<< CharEacute >>), Bytes(<< CharA >>) }

\* read_nonblocking's size argument
ReadSizes == {1, 2}
\* read_nonblocking's timeout argument; -1 is "use self.timeout"
ReadTimeouts == {-1, 0}

VARIABLES
    encoding,   \* "none" (bytes mode, _NullCoder) or "utf8" (incremental coders)
    kind,       \* what backs the channel pair: "pipe" or "file"
    usePoll,    \* self.use_poll
    source,     \* self.source: None, or the text 'dut-<count>'
    sinkLog,    \* the records logging.info has received, in order
    frClosed,   \* _fr is closed (child_fd is no longer a valid descriptor)
    fwClosed,   \* _fw is closed
    fwBuf,      \* bytes written to _fw and not yet flushed
    channel,    \* bytes in the channel, written and not yet read
    decBuf,     \* bytes held back by self._decoder (an incomplete sequence)
    rpc,        \* reader: "idle", "wait", "blocked", "read"
    rsize,      \* reader: size of the call in flight
    rarg,       \* reader: the timeout argument of the call in flight
    rtimeout,   \* reader: timeout of the call in flight, after line 83-84
    elapsed,    \* reader: ticks spent in the readiness wait of this call
    rres,       \* reader: outcome of the last call, [kind, val, errno]
    rAfterTerm, \* reader: the call began after a terminate() had returned
    received,   \* everything read_nonblocking has returned, concatenated
    wpc,        \* writer: "idle", "write", "flush"
    wbytes,     \* writer: the encoded bytes of the call in flight
    wwritten,   \* writer: what _fw.write returned
    wres,       \* writer: how the last send ended, [kind, val, exc]
    wAfterTerm, \* writer: the call began after a terminate() had returned
    sendArgs,   \* the arguments of all send calls, in call order
    tpc,        \* terminator: "idle", "closeFr", "closeFw"
    termCalled, \* some terminate call has begun
    termDone,   \* some terminate call has returned
    sysStdout,  \* sys.stdout: the interpreter's own stream, a guard, or what
                \* the logging machinery installed
    gStdout,    \* per guard: self.stdout, the remembered target or None
    gEntry,     \* per guard: sys.stdout just before its last entry that took effect
    gAlive,     \* the guards that have not been destroyed
    lastOp,     \* the last guard operation, [op, g, active, data, sink]
    producer,   \* the producer's class: "popen" (DuplicateStdoutPopen) or
                \* "mixin" (a class that does not override _forward_io)
    fwdThread,  \* self._forward_io_thread: NoThread or an index into threads
    threads,    \* the Thread objects created, [st, pc, data, daemon]
    cpc,        \* per caller of create_forward_io_thread: "idle", "create", "start"
    cres,       \* per caller: how its last call ended
    cLive,      \* per caller: a forwarder thread was running at line 229 of its last call
    nCalls,     \* per caller: number of calls begun
    childPc,    \* the child process: "run", "wrote", "closed", "exited"; "none"
                \* when the producer has no child
    childPipe,  \* the bytes in the child's stdout pipe
    childStdin, \* the bytes written to the child's stdin pipe
    stdinArgs,  \* the arguments of the DuplicateStdoutPopen.send calls that wrote
    stdinRes,   \* how the last DuplicateStdoutPopen.send ended
    total,      \* the `total` the tagged streams were created with
    ppc,        \* per producer thread: "idle", "log", "write"
    pLines,     \* per producer thread: the lines its logging loop has still to visit
    pArgs,      \* per producer thread: the arguments of its send calls
    pOut,       \* per tagged stream: the bytes written to its _fw and flushed
    pRes,       \* per producer thread: what its last send returned
    sinkFrom    \* per record of sinkLog: the thread, call and line it came from

streamVars == << encoding, kind, usePoll, source, sinkLog, frClosed, fwClosed, fwBuf, channel,
                 decBuf, rpc, rsize, rarg, rtimeout, elapsed, rres, rAfterTerm,
                 received, wpc, wbytes, wwritten, wres, wAfterTerm, sendArgs,
                 tpc, termCalled, termDone >>

guardVars == << sysStdout, gStdout, gEntry, gAlive, lastOp >>

\* the child's stdin and the send calls of the subprocess adapter
stdinVars == << childStdin, stdinArgs, stdinRes >>

fwdVars == << producer, fwdThread, threads, cpc, cres, cLive, nCalls, childPc, childPipe,
              stdinVars >>

\* the tagged streams and their producer threads
logVars == << total, ppc, pLines, pArgs, pOut, pRes, sinkFrom >>

\* what the stream's own operations leave alone
nonStreamVars == << guardVars, fwdVars, logVars >>

vars == << streamVars, guardVars, fwdVars, logVars >>

(* --------------------------- pure helpers ------------------------------ *)
Min(a, b) == IF a < b THEN a ELSE b

\* UTF-8 of one code point below U+0800
Utf8Char(c) == IF c < 128 THEN << c >> ELSE << 192 + (c \div 64), 128 + (c % 64) >>

RECURSIVE Utf8(_)
Utf8(text) == IF text = << >> THEN << >> ELSE Utf8Char(Head(text)) \o Utf8(Tail(text))

\* line 46 and line 57, self._coerce_send_string(s) followed by
\* self._encoder.encode(s, final=False): bytes mode encodes text as UTF-8 and
\* the null coder passes bytes on; in text mode the incremental encoder does
\* the encoding.
EncodeForSend(d) == IF d.t = "str" THEN Utf8(d.v) ELSE d.v

\* self._decoder.decode(s, final=False): [out, buf] for the bytes `raw` arriving
\* after the held-back bytes `buf`.  The null coder returns the bytes as they
\* are; the incremental decoder returns the completed code points and holds
\* back an incomplete sequence.
RECURSIVE Utf8Decode(_, _)
Utf8Decode(bytes, out) ==
    IF bytes = << >> THEN [out |-> out, buf |-> << >>]
    ELSE IF Head(bytes) < 128 THEN Utf8Decode(Tail(bytes), Append(out, Head(bytes)))
    ELSE IF Len(bytes) = 1 THEN [out |-> out, buf |-> bytes]
    ELSE Utf8Decode(Tail(Tail(bytes)),
                    Append(out, (bytes[1] - 192) * 64 + (bytes[2] - 128)))

\* Decode with final=True semantics: an incomplete sequence is not held back
DecodeDropsIncomplete(buf, raw) ==
    IF encoding = "none" THEN [out |-> raw, buf |-> << >>]
    ELSE [out |-> Utf8Decode(buf \o raw, << >>).out, buf |-> << >>]

Decode(buf, raw) ==
    IF encoding = "none" THEN [out |-> raw, buf |-> << >>]
    ELSE Utf8Decode(buf \o raw, << >>)

\* to_str(s) at line 50, of the coerced s: bytes are decoded as UTF-8, text is
\* passed through
ToStr(d) ==
    IF d.t = "bytes" \/ encoding = "none"
    THEN Utf8Decode(EncodeForSend(d), << >>).out
    ELSE d.v

\* line 50: .replace('\r', '\n').split('\n')
RECURSIVE SplitLines(_, _, _)
SplitLines(text, cur, acc) ==
    IF text = << >> THEN Append(acc, cur)
    ELSE IF Head(text) \in {10, 13} THEN SplitLines(Tail(text), << >>, Append(acc, cur))
    ELSE SplitLines(Tail(text), Append(cur, Head(text)), acc)

\* line 51: line.strip() is not empty
NonBlank(line) == \E i \in 1..Len(line) : line[i] \notin {9, 10, 11, 12, 13, 32}

\* line 27: f'dut-{count}', for one decimal digit
SourceTag(count) == << 100, 117, 116, 45, 48 + count >>

\* lines 52-53: f'[{self.source}]' + line
Prefixed(src, line) == IF src = None THEN line ELSE << 91 >> \o src \o << 93 >> \o line

RECURSIVE PrefixAll(_, _)
PrefixAll(src, lines) ==
    IF lines = << >> THEN << >>
    ELSE << Prefixed(src, Head(lines)) >> \o PrefixAll(src, Tail(lines))

\* lines 50-54: the records one send call hands to logging.info
LogRecords(src, d) == PrefixAll(src, SelectSeq(SplitLines(ToStr(d), << >>, << >>), NonBlank))

\* how a send call ends
NoReturn == [kind |-> "none", val |-> 0, exc |-> None]
Returns(n) == [kind |-> "return", val |-> n, exc |-> None]
Raises(exc) == [kind |-> "raise", val |-> 0, exc |-> exc]

NoResult == [kind |-> "none", val |-> << >>, errno |-> None]

\* the except clause as pexpect's own spawn has it: EIO raises EOF as well
HandleOSErrorEioIsEOF(errno) ==
    IF errno \in {"EBADF", "EIO"} THEN [kind |-> "EOF", val |-> << >>, errno |-> errno]
    ELSE [kind |-> "OSError", val |-> << >>, errno |-> errno]

\* the except clause without the EBADF test: every OSError is re-raised
HandleOSErrorReraisesAll(errno) == [kind |-> "OSError", val |-> << >>, errno |-> errno]

\* the except clause taking EBADF for an idle descriptor: it raises TIMEOUT
HandleOSErrorEbadfIsTimeout(errno) ==
    IF errno = "EBADF" THEN [kind |-> "TIMEOUT", val |-> << >>, errno |-> errno]
    ELSE [kind |-> "OSError", val |-> << >>, errno |-> errno]

\* the except clause of read_nonblocking (lines 96-101): EIO falls through
\* `pass` to the bare raise, EBADF becomes EOF, the rest is re-raised
HandleOSError(errno) ==
    IF errno = "EBADF" THEN [kind |-> "EOF", val |-> << >>, errno |-> errno]
    ELSE [kind |-> "OSError", val |-> << >>, errno |-> errno]

\* the descriptor child_fd is readable: a regular file always is, a pipe is
\* when it holds bytes or its write end is closed
Readable == kind = "file" \/ channel # << >> \/ fwClosed

(* ------------------------ PexpectProcess.send -------------------------- *)
writerVars == << wpc, wbytes, wwritten, wres, wAfterTerm, sendArgs >>
readerVars == << rpc, rsize, rarg, rtimeout, elapsed, rres, rAfterTerm, received, decBuf >>
termVars == << tpc, termCalled, termDone >>
configVars == << encoding, kind, usePoll, source >>

\* lines 46-57: coerce, log, encode
SendCall(d) ==
    /\ wpc = "idle"
    /\ Len(sendArgs) < MaxSends
    /\ wpc' = "write"
    /\ sinkLog' = sinkLog \o LogRecords(source, d)
    /\ wbytes' = EncodeForSend(d)
    /\ wwritten' = 0
    /\ wres' = NoReturn
    /\ wAfterTerm' = termDone
    /\ sendArgs' = Append(sendArgs, d)
    /\ UNCHANGED << nonStreamVars, configVars, frClosed, fwClosed, fwBuf, channel, readerVars, termVars >>

\* line 59: written = self._fw.write(b); ValueError on a closed file returns 0
SendWrite ==
    /\ wpc = "write"
    /\ IF fwClosed
       THEN /\ wpc' = "idle"
            /\ wres' = Returns(0)
            /\ wbytes' = << >>
            /\ UNCHANGED << fwBuf, wwritten >>
       ELSE /\ wpc' = "flush"
            /\ fwBuf' = fwBuf \o wbytes
            /\ wwritten' = Len(wbytes)
            /\ wbytes' = << >>
            /\ UNCHANGED wres
    /\ UNCHANGED << nonStreamVars, configVars, sinkLog, frClosed, fwClosed, channel, readerVars, termVars,
                    wAfterTerm, sendArgs >>

\* a flush of buffered bytes into a pipe whose read end is closed fails with
\* EPIPE (BrokenPipeError, an OSError)
BrokenPipe == kind = "pipe" /\ frClosed /\ fwBuf # << >>

\* lines 60-64: self._fw.flush(); return written.  Only ValueError (the file
\* is closed) is caught.
SendFlush ==
    /\ wpc = "flush"
    /\ wpc' = "idle"
    /\ IF fwClosed
       THEN /\ wres' = Returns(0)
            /\ UNCHANGED << fwBuf, channel >>
       ELSE IF BrokenPipe
       THEN /\ wres' = Raises("BrokenPipeError")
            /\ UNCHANGED << fwBuf, channel >>
       ELSE /\ channel' = channel \o fwBuf
            /\ fwBuf' = << >>
            /\ wres' = Returns(wwritten)
    /\ wwritten' = 0
    /\ UNCHANGED << nonStreamVars, configVars, sinkLog, frClosed, fwClosed, readerVars, termVars,
                    wbytes, wAfterTerm, sendArgs >>

(* ------------------- PexpectProcess.read_nonblocking ------------------- *)
\* how a call ends: with an exception or a return value
ReadEnds(res, out, buf) ==
    /\ rpc' = "idle"
    /\ rres' = res
    /\ received' = received \o out
    /\ decBuf' = buf
    /\ rsize' = 0 /\ rarg' = 0 /\ rtimeout' = 0 /\ elapsed' = 0   \* the locals are gone
    /\ UNCHANGED rAfterTerm

\* lines 82-87
ReadCall(size, timeout) ==
    /\ rpc = "idle"
    /\ rpc' = "wait"
    /\ rsize' = size
    /\ rarg' = timeout
    /\ rtimeout' = IF timeout = -1 THEN DefaultTimeout ELSE timeout
    /\ elapsed' = 0
    /\ rres' = NoResult
    /\ rAfterTerm' = termDone
    /\ UNCHANGED << nonStreamVars, configVars, sinkLog, frClosed, fwClosed, fwBuf, channel, decBuf, received,
                    writerVars, termVars >>

\* lines 88-91, entering poll/select: on a descriptor that is already closed
\* select fails with EBADF and poll reports the descriptor (POLLNVAL)
WaitEnter ==
    /\ rpc = "wait"
    /\ IF frClosed
       THEN IF usePoll
            THEN /\ rpc' = "read"
                 /\ UNCHANGED << rres, received, decBuf, rsize, rarg, rtimeout, elapsed, rAfterTerm >>
            ELSE ReadEnds(HandleOSError("EBADF"), << >>, decBuf)
       ELSE /\ rpc' = "blocked"
            /\ UNCHANGED << rres, received, decBuf, rsize, rarg, rtimeout, elapsed, rAfterTerm >>
    /\ UNCHANGED << nonStreamVars, configVars, sinkLog, frClosed, fwClosed, fwBuf, channel, writerVars, termVars >>

\* the wait returns the descriptor as ready
WaitReady ==
    /\ rpc = "blocked"
    /\ \/ ~frClosed /\ Readable
       \/ frClosed      \* closed by another thread during the wait: unspecified
    /\ rpc' = "read"
    /\ UNCHANGED << nonStreamVars, configVars, sinkLog, frClosed, fwClosed, fwBuf, channel, writerVars, termVars,
                    rres, received, decBuf, rsize, rarg, rtimeout, elapsed, rAfterTerm >>

\* time passes in the wait
WaitTick ==
    /\ rpc = "blocked"
    /\ frClosed \/ ~Readable
    /\ elapsed < rtimeout
    /\ elapsed' = elapsed + 1
    /\ UNCHANGED << nonStreamVars, configVars, sinkLog, frClosed, fwClosed, fwBuf, channel, writerVars, termVars,
                    rpc, rres, received, decBuf, rsize, rarg, rtimeout, rAfterTerm >>

\* lines 92-93: the wait returned without the descriptor
WaitTimeout ==
    /\ rpc = "blocked"
    /\ frClosed \/ ~Readable
    /\ elapsed >= rtimeout
    /\ ReadEnds([kind |-> "TIMEOUT", val |-> << >>, errno |-> None], << >>, decBuf)
    /\ UNCHANGED << nonStreamVars, configVars, sinkLog, frClosed, fwClosed, fwBuf, channel, writerVars, termVars >>

\* the wait fails: EBADF when the descriptor was closed during the wait,
\* any other error of the wait at any time
WaitError(errno) ==
    /\ rpc = "blocked"
    /\ errno = "EBADF" => frClosed
    /\ ReadEnds(HandleOSError(errno), << >>, decBuf)
    /\ UNCHANGED << nonStreamVars, configVars, sinkLog, frClosed, fwClosed, fwBuf, channel, writerVars, termVars >>

\* line 95 failing: EBADF exactly when the descriptor is closed
ReadError(errno) ==
    /\ rpc = "read"
    /\ errno = "EBADF" <=> frClosed
    /\ ReadEnds(HandleOSError(errno), << >>, decBuf)
    /\ UNCHANGED << nonStreamVars, configVars, sinkLog, frClosed, fwClosed, fwBuf, channel, writerVars, termVars >>

\* lines 95, 103-105: one read of up to size bytes, decoded and returned
ReadData ==
    /\ rpc = "read"
    /\ ~frClosed
    /\ Readable
    /\ LET n == Min(rsize, Len(channel))
           d == Decode(decBuf, SubSeq(channel, 1, n))
       IN /\ channel' = SubSeq(channel, n + 1, Len(channel))
          /\ ReadEnds([kind |-> "data", val |-> d.out, errno |-> None], d.out, d.buf)
    /\ UNCHANGED << nonStreamVars, configVars, sinkLog, frClosed, fwClosed, fwBuf, writerVars, termVars >>

(* --------------------- PexpectProcess.terminate ------------------------ *)
TerminateCall ==
    /\ tpc = "idle"
    /\ tpc' = "closeFr"
    /\ termCalled' = TRUE
    /\ UNCHANGED << nonStreamVars, configVars, sinkLog, frClosed, fwClosed, fwBuf, channel, readerVars,
                    writerVars, termDone >>

\* line 112: self._fr.close(); when it raises, lines 114-115 swallow the
\* exception and line 113 is skipped.  Closing a closed file does nothing.
CloseFr(fails) ==
    /\ tpc = "closeFr"
    /\ fails => ~frClosed
    /\ frClosed' = TRUE
    /\ IF fails
       THEN tpc' = "idle" /\ termDone' = TRUE
       ELSE tpc' = "closeFw" /\ UNCHANGED termDone
    /\ UNCHANGED << nonStreamVars, configVars, sinkLog, fwClosed, fwBuf, channel, readerVars, writerVars, termCalled >>

\* line 113: self._fw.close() flushes what is buffered and closes; when the
\* flush fails the buffered bytes are lost and the exception is swallowed
CloseFw(fails) ==
    /\ tpc = "closeFw"
    /\ fails => ~fwClosed
    /\ BrokenPipe /\ ~fwClosed => fails
    /\ fwClosed' = TRUE
    /\ fwBuf' = << >>
    /\ channel' = IF fails THEN channel ELSE channel \o fwBuf
    /\ tpc' = "idle"
    /\ termDone' = TRUE
    /\ UNCHANGED << nonStreamVars, configVars, sinkLog, frClosed, readerVars, writerVars, termCalled >>

(* --------------------------- DuplicateStdout --------------------------- *)
NoOp == [op |-> "none", g |-> None, active |-> FALSE, data |-> Str(<< >>), sink |-> None]
Op(op, g, d, sink) ==
    [op |-> op, g |-> g, active |-> gStdout[g] # None, data |-> d, sink |-> sink]

\* PexpectProcess.write (lines 66-67), a whole send call (lines 46-64) made
\* with no other thread in between
SendWhole(d) ==
    /\ wpc = "idle"
    /\ Len(sendArgs) < MaxSends
    /\ sendArgs' = Append(sendArgs, d)
    /\ sinkLog' = sinkLog \o LogRecords(source, d)
    /\ wAfterTerm' = termDone
    /\ IF fwClosed
       THEN /\ wres' = Returns(0)
            /\ UNCHANGED << fwBuf, channel >>
       ELSE IF kind = "pipe" /\ frClosed /\ fwBuf \o EncodeForSend(d) # << >>
       THEN /\ wres' = Raises("BrokenPipeError")
            /\ fwBuf' = fwBuf \o EncodeForSend(d)
            /\ UNCHANGED channel
       ELSE /\ wres' = Returns(Len(EncodeForSend(d)))
            /\ channel' = channel \o fwBuf \o EncodeForSend(d)
            /\ fwBuf' = << >>
    /\ UNCHANGED << configVars, frClosed, fwClosed, readerVars, termVars, wpc, wbytes, wwritten >>

\* __enter__ without the test of line 143
GuardEnterUnconditional(g) ==
    /\ g \in gAlive
    /\ lastOp' = Op("enter", g, Str(<< >>), None)
    /\ gStdout' = [gStdout EXCEPT ![g] = sysStdout]
    /\ gEntry' = [gEntry EXCEPT ![g] = IF gStdout[g] = None THEN sysStdout ELSE @]
    /\ sysStdout' = g
    /\ UNCHANGED << streamVars, fwdVars, logVars, gAlive >>

\* lines 142-145
GuardEnter(g) ==
    /\ g \in gAlive
    /\ lastOp' = Op("enter", g, Str(<< >>), None)
    /\ IF gStdout[g] = None
       THEN /\ gStdout' = [gStdout EXCEPT ![g] = sysStdout]
            /\ gEntry' = [gEntry EXCEPT ![g] = sysStdout]
            /\ sysStdout' = g
       ELSE UNCHANGED << gStdout, gEntry, sysStdout >>
    /\ UNCHANGED << streamVars, fwdVars, logVars, gAlive >>

\* close() that forgets the remembered target without restoring it
CloseEffectNoRestore(g) ==
    /\ gStdout' = [gStdout EXCEPT ![g] = None]
    /\ UNCHANGED sysStdout

\* close() that restores sys.stdout and keeps the remembered target
CloseEffectKeepsTarget(g) ==
    IF gStdout[g] # None
    THEN /\ sysStdout' = gStdout[g]
         /\ UNCHANGED gStdout
    ELSE UNCHANGED << sysStdout, gStdout >>

\* lines 169-175
CloseEffect(g) ==
    IF gStdout[g] # None
    THEN /\ sysStdout' = gStdout[g]
         /\ gStdout' = [gStdout EXCEPT ![g] = None]
    ELSE UNCHANGED << sysStdout, gStdout >>

\* close() (lines 169-175) and __exit__ (lines 147-148)
GuardClose(g, how) ==
    /\ g \in gAlive
    /\ lastOp' = Op(how, g, Str(<< >>), None)
    /\ CloseEffect(g)
    /\ UNCHANGED << streamVars, fwdVars, logVars, gEntry, gAlive >>

\* __del__ (lines 150-151): runs when nothing refers to the guard any more,
\* neither sys.stdout nor another guard's remembered target
GuardDel(g) ==
    /\ g \in gAlive
    /\ sysStdout # g
    /\ \A h \in Guards : gStdout[h] # g
    /\ lastOp' = Op("del", g, Str(<< >>), None)
    /\ CloseEffect(g)
    /\ gAlive' = gAlive \ {g}
    /\ UNCHANGED << streamVars, fwdVars, logVars, gEntry >>

\* write() without line 161
GuardWriteNoReassert(g, d, sink) ==
    /\ g \in gAlive
    /\ sink # None => LogRecords(source, d) # << >>
    /\ lastOp' = Op("write", g, d, sink)
    /\ IF d.v = << >>
       THEN UNCHANGED << streamVars, sysStdout >>
       ELSE /\ SendWhole(d)
            /\ sysStdout' = IF sink = None THEN sysStdout ELSE sink
    /\ UNCHANGED << fwdVars, logVars, gStdout, gEntry, gAlive >>

\* lines 153-161.  `sink` is what logging.info, called by the stream's send,
\* leaves in sys.stdout: None when it leaves sys.stdout alone.  When send
\* raises, line 161 is not reached.
GuardWrite(g, d, sink) ==
    /\ g \in gAlive
    /\ sink # None => LogRecords(source, d) # << >>
    /\ lastOp' = Op("write", g, d, sink)
    /\ IF d.v = << >>
       THEN UNCHANGED << streamVars, sysStdout >>
       ELSE /\ SendWhole(d)
            /\ sysStdout' = IF wres'.kind = "raise"
                            THEN (IF sink = None THEN sysStdout ELSE sink)
                            ELSE g
    /\ UNCHANGED << fwdVars, logVars, gStdout, gEntry, gAlive >>

\* lines 163-167
GuardFlush(g) ==
    /\ g \in gAlive
    /\ lastOp' = Op("flush", g, Str(<< >>), None)
    /\ UNCHANGED << streamVars, fwdVars, logVars, sysStdout, gStdout, gEntry, gAlive >>

(* ------------- DuplicateStdoutMixin / DuplicateStdoutPopen ------------- *)
\* line 232: threading.Thread(target=self._forward_io, ..., daemon=True)
NewThread == [st |-> "new", pc |-> "poll", data |-> << >>, daemon |-> TRUE]

Running(t) == t <= Len(threads) /\ threads[t].st = "running"

\* create_forward_io_thread with the test of line 229 left out
StartCheckAlwaysCreates(c) ==
    /\ cpc[c] = "idle"
    /\ nCalls[c] < MaxCalls
    /\ nCalls' = [nCalls EXCEPT ![c] = @ + 1]
    /\ cLive' = [cLive EXCEPT ![c] = \E t \in 1..Len(threads) : Running(t)]
    /\ cpc' = [cpc EXCEPT ![c] = "create"]
    /\ cres' = [cres EXCEPT ![c] = "none"]
    /\ UNCHANGED << streamVars, guardVars, logVars, stdinVars, producer, fwdThread, threads, childPc, childPipe >>

\* lines 229-230: a Thread object is true whether or not it is still running
StartCheck(c) ==
    /\ cpc[c] = "idle"
    /\ nCalls[c] < MaxCalls
    /\ nCalls' = [nCalls EXCEPT ![c] = @ + 1]
    /\ cLive' = [cLive EXCEPT ![c] = \E t \in 1..Len(threads) : Running(t)]
    /\ IF fwdThread # NoThread
       THEN /\ cres' = [cres EXCEPT ![c] = "noop"]
            /\ UNCHANGED cpc
       ELSE /\ cpc' = [cpc EXCEPT ![c] = "create"]
            /\ cres' = [cres EXCEPT ![c] = "none"]
    /\ UNCHANGED << streamVars, guardVars, logVars, stdinVars, producer, fwdThread, threads, childPc, childPipe >>

\* line 232
StartCreate(c) ==
    /\ cpc[c] = "create"
    /\ threads' = Append(threads, NewThread)
    /\ fwdThread' = Len(threads) + 1
    /\ cpc' = [cpc EXCEPT ![c] = "start"]
    /\ UNCHANGED << streamVars, guardVars, logVars, stdinVars, producer, cres, cLive, nCalls, childPc, childPipe >>

\* line 233: start() of the thread the attribute holds now; a thread that
\* was started already raises RuntimeError
StartStart(c) ==
    /\ cpc[c] = "start"
    /\ cpc' = [cpc EXCEPT ![c] = "idle"]
    /\ IF threads[fwdThread].st = "new"
       THEN /\ threads' = [threads EXCEPT ![fwdThread].st = "running"]
            /\ cres' = [cres EXCEPT ![c] = "started"]
       ELSE /\ cres' = [cres EXCEPT ![c] = "RuntimeError"]
            /\ UNCHANGED threads
    /\ UNCHANGED << streamVars, guardVars, logVars, stdinVars, producer, fwdThread, cLive, nCalls, childPc, childPipe >>

\* lines 235-236: the mixin's own _forward_io raises in the new thread
ForwardNotImplemented(t) ==
    /\ producer = "mixin"
    /\ Running(t)
    /\ threads' = [threads EXCEPT ![t].st = "raised"]
    /\ UNCHANGED << streamVars, guardVars, logVars, stdinVars, producer, fwdThread, cpc, cres, cLive, nCalls,
                    childPc, childPipe >>

\* line 270: while self.poll() is None
ForwardPoll(t) ==
    /\ producer = "popen"
    /\ Running(t)
    /\ threads[t].pc = "poll"
    /\ threads' = IF childPc = "exited"
                  THEN [threads EXCEPT ![t].st = "done"]
                  ELSE [threads EXCEPT ![t].pc = "read"]
    /\ UNCHANGED << streamVars, guardVars, logVars, stdinVars, producer, fwdThread, cpc, cres, cLive, nCalls,
                    childPc, childPipe >>

\* line 271, self.stdout.read(): the pipe is unbuffered (bufsize 0), read()
\* returns everything up to end of file, so it blocks until the child has
\* closed its end
ForwardRead(t) ==
    /\ producer = "popen"
    /\ Running(t)
    /\ threads[t].pc = "read"
    /\ childPc \in {"closed", "exited"}
    /\ threads' = [threads EXCEPT ![t].pc = "write", ![t].data = childPipe]
    /\ childPipe' = << >>
    /\ UNCHANGED << streamVars, guardVars, logVars, stdinVars, producer, fwdThread, cpc, cres, cLive, nCalls, childPc >>

\* line 271, pexpect_proc.write(...)
ForwardWrite(t) ==
    /\ producer = "popen"
    /\ Running(t)
    /\ threads[t].pc = "write"
    /\ SendWhole(Bytes(threads[t].data))
    /\ threads' = [threads EXCEPT ![t].pc = "poll", ![t].data = << >>]
    /\ UNCHANGED << guardVars, logVars, stdinVars, producer, fwdThread, cpc, cres, cLive, nCalls,
                    childPc, childPipe >>

\* the child of `echo hello`: writes its line, closes its stdout, exits
ChildWrite ==
    /\ childPc = "run"
    /\ childPipe' = childPipe \o Hello
    /\ childPc' = "wrote"
    /\ UNCHANGED << streamVars, guardVars, logVars, stdinVars, producer, fwdThread, threads, cpc, cres, cLive, nCalls >>

ChildClose ==
    /\ childPc = "wrote"
    /\ childPc' = "closed"
    /\ UNCHANGED << streamVars, guardVars, logVars, stdinVars, producer, fwdThread, threads, cpc, cres, cLive,
                    nCalls, childPipe >>

ChildExit ==
    /\ childPc = "closed"
    /\ childPc' = "exited"
    /\ UNCHANGED << streamVars, guardVars, logVars, stdinVars, producer, fwdThread, threads, cpc, cres, cLive,
                    nCalls, childPipe >>


\* utils.to_bytes(value, terminator): text is encoded as UTF-8; the
\* terminator, when one is given, is encoded and appended to text and to
\* binary input alike
ToBytes(d, terminator) ==
    (IF d.t = "str" THEN Utf8(d.v) ELSE d.v)
        \o (IF terminator = None THEN << >> ELSE Utf8(terminator))

\* lines 256-267: self.stdin.write(to_bytes(s, '\n')).  stdin is an
\* unbuffered pipe (bufsize 0); once the child has exited nothing reads the
\* pipe and the write fails with EPIPE
PopenSend(d) ==
    /\ producer = "popen"
    /\ Len(stdinArgs) < MaxStdinSends
    /\ IF childPc = "exited"
       THEN /\ stdinRes' = Raises("BrokenPipeError")
            /\ UNCHANGED << childStdin, stdinArgs >>
       ELSE /\ childStdin' = childStdin \o ToBytes(d, << LF >>)
            /\ stdinArgs' = Append(stdinArgs, d)
            /\ stdinRes' = Returns(0)
    /\ UNCHANGED << streamVars, guardVars, logVars, producer, fwdThread, threads, cpc, cres,
                    cLive, nCalls, childPc, childPipe >>

(* ---------- PexpectProcess.send on the tagged streams of a run --------- *)
\* what the stream variables hold besides the logging sink
channelVars == << frClosed, fwClosed, fwBuf, channel >>

\* lines 26-29: the stream with this count, created with `total`
StreamSource(count) == IF total > 1 THEN SourceTag(count) ELSE None

\* lines 46-50, by the producer thread p on the stream with count p: coerce,
\* self._log, and the lines the loop of line 50 is going to visit
LogSendCall(p, d) ==
    /\ ppc[p] = "idle"
    /\ Len(pArgs[p]) < MaxLogSends
    /\ pArgs' = [pArgs EXCEPT ![p] = Append(@, d)]
    /\ pLines' = [pLines EXCEPT ![p] = SplitLines(ToStr(d), << >>, << >>)]
    /\ ppc' = [ppc EXCEPT ![p] = "log"]
    /\ UNCHANGED << streamVars, guardVars, fwdVars, total, pOut, pRes, sinkFrom >>

\* the loop of lines 50-54 with the test of line 51 left out
LogLineUnfiltered(p) ==
    /\ ppc[p] = "log"
    /\ pLines[p] # << >>
    /\ LET all == SplitLines(ToStr(pArgs[p][Len(pArgs[p])]), << >>, << >>)
           line == Head(pLines[p])
       IN /\ sinkLog' = Append(sinkLog, Prefixed(StreamSource(p), line))
          /\ sinkFrom' = Append(sinkFrom, [p |-> p, call |-> Len(pArgs[p]),
                                           line |-> Len(all) - Len(pLines[p]) + 1])
    /\ pLines' = [pLines EXCEPT ![p] = Tail(@)]
    /\ UNCHANGED << configVars, channelVars, readerVars, writerVars, termVars, guardVars,
                    fwdVars, total, ppc, pArgs, pOut, pRes >>

\* one iteration of the loop of lines 50-54: a line that is not blank is
\* prefixed with the stream's tag and handed to logging.info; other threads
\* run between two iterations
LogLine(p) ==
    /\ ppc[p] = "log"
    /\ pLines[p] # << >>
    /\ LET all == SplitLines(ToStr(pArgs[p][Len(pArgs[p])]), << >>, << >>)
           line == Head(pLines[p])
       IN IF NonBlank(line)
          THEN /\ sinkLog' = Append(sinkLog, Prefixed(StreamSource(p), line))
               /\ sinkFrom' = Append(sinkFrom, [p |-> p, call |-> Len(pArgs[p]),
                                                line |-> Len(all) - Len(pLines[p]) + 1])
          ELSE UNCHANGED << sinkLog, sinkFrom >>
    /\ pLines' = [pLines EXCEPT ![p] = Tail(@)]
    /\ UNCHANGED << configVars, channelVars, readerVars, writerVars, termVars, guardVars,
                    fwdVars, total, ppc, pArgs, pOut, pRes >>

\* the loop is over
LogLoopEnd(p) ==
    /\ ppc[p] = "log"
    /\ pLines[p] = << >>
    /\ ppc' = [ppc EXCEPT ![p] = "write"]
    /\ UNCHANGED << streamVars, guardVars, fwdVars, total, pLines, pArgs, pOut, pRes, sinkFrom >>

\* lines 57-64 on the thread's own stream, which no other thread writes to
\* and which is not terminated
LogSendWrite(p) ==
    /\ ppc[p] = "write"
    /\ LET b == EncodeForSend(pArgs[p][Len(pArgs[p])])
       IN /\ pOut' = [pOut EXCEPT ![p] = @ \o b]
          /\ pRes' = [pRes EXCEPT ![p] = Returns(Len(b))]
    /\ ppc' = [ppc EXCEPT ![p] = "idle"]
    /\ UNCHANGED << streamVars, guardVars, fwdVars, total, pLines, pArgs, sinkFrom >>


(* --------------------------- specification ----------------------------- *)
StreamInit ==
    /\ encoding \in {"none", "utf8"}
    /\ kind \in {"pipe", "file"}
    /\ usePoll \in BOOLEAN
    /\ source = None        \* count = 1, total = 1, the defaults of line 22
    /\ sinkLog = << >>
    /\ frClosed = FALSE
    /\ fwClosed = FALSE
    /\ fwBuf = << >>
    /\ channel = << >>
    /\ decBuf = << >>
    /\ rpc = "idle"
    /\ rsize = 0
    /\ rarg = 0
    /\ rtimeout = 0
    /\ elapsed = 0
    /\ rres = NoResult
    /\ rAfterTerm = FALSE
    /\ received = << >>
    /\ wpc = "idle"
    /\ wbytes = << >>
    /\ wwritten = 0
    /\ wres = NoReturn
    /\ wAfterTerm = FALSE
    /\ sendArgs = << >>
    /\ tpc = "idle"
    /\ termCalled = FALSE
    /\ termDone = FALSE

\* lines 132-140: no guard has been entered
GuardsInit ==
    /\ sysStdout = OriginalStdout
    /\ gStdout = [g \in Guards |-> None]
    /\ gEntry = [g \in Guards |-> None]
    /\ gAlive = Guards
    /\ lastOp = NoOp

\* lines 217-220 and 252-254: no forwarder thread; a DuplicateStdoutPopen has
\* spawned its child, another producer class has none
ProducerInit(cls) ==
    /\ producer = cls
    /\ fwdThread = NoThread
    /\ threads = << >>
    /\ cpc = [c \in Callers |-> "idle"]
    /\ cres = [c \in Callers |-> "none"]
    /\ cLive = [c \in Callers |-> FALSE]
    /\ nCalls = [c \in Callers |-> 0]
    /\ childPc = IF cls = "popen" THEN "run" ELSE "none"
    /\ childPipe = << >>
    /\ childStdin = << >>
    /\ stdinArgs = << >>
    /\ stdinRes = NoReturn

\* lines 22-34, for the streams of a run created with `tot`
TaggedInit(tot) ==
    /\ total = tot
    /\ ppc = [p \in Producers |-> "idle"]
    /\ pLines = [p \in Producers |-> << >>]
    /\ pArgs = [p \in Producers |-> << >>]
    /\ pOut = [p \in Producers |-> << >>]
    /\ pRes = [p \in Producers |-> NoReturn]
    /\ sinkFrom = << >>

Init == StreamInit /\ GuardsInit /\ ProducerInit("popen") /\ TaggedInit(1)

ReaderNext ==
    \/ \E size \in ReadSizes, timeout \in ReadTimeouts : ReadCall(size, timeout)
    \/ WaitEnter
    \/ WaitReady
    \/ WaitTick
    \/ WaitTimeout
    \/ \E errno \in {"EBADF", "ENOMEM"} : WaitError(errno)
    \/ \E errno \in {"EBADF", "EIO", "ENOMEM"} : ReadError(errno)
    \/ ReadData

WriterNext ==
    \/ \E d \in StrInputs : SendCall(d)
    \/ SendWrite
    \/ SendFlush

TerminatorNext ==
    \/ TerminateCall
    \/ \E fails \in BOOLEAN : CloseFr(fails)
    \/ \E fails \in BOOLEAN : CloseFw(fails)

Next == ReaderNext \/ WriterNext \/ TerminatorNext

Spec == Init /\ [][Next]_vars

GuardNext ==
    \/ \E g \in Guards : GuardEnter(g)
    \/ \E g \in Guards, how \in {"close", "exit"} : GuardClose(g, how)
    \/ \E g \in Guards : GuardDel(g)
    \/ \E g \in Guards, d \in GuardData, sink \in {None, SinkStdout} : GuardWrite(g, d, sink)
    \/ \E g \in Guards : GuardFlush(g)

\* the guards' operations never wait on the channel nor close it, so the
\* stream is taken as file-backed with select
GuardInit == Init /\ kind = "file" /\ usePoll = FALSE

\* a process with a single guard
TheGuard == "g1"

OneGuardNext ==
    \/ GuardEnter(TheGuard)
    \/ \E how \in {"close", "exit"} : GuardClose(TheGuard, how)
    \/ GuardDel(TheGuard)
    \/ \E d \in GuardData, sink \in {None, SinkStdout} : GuardWrite(TheGuard, d, sink)
    \/ GuardFlush(TheGuard)

OneGuardSpec == GuardInit /\ [][OneGuardNext]_vars

ForwarderNext ==
    \/ \E c \in Callers : StartCheck(c)
    \/ \E c \in Callers : StartCreate(c)
    \/ \E c \in Callers : StartStart(c)
    \/ \E t \in ThreadIds : ForwardNotImplemented(t)
    \/ \E t \in ThreadIds : ForwardPoll(t)
    \/ \E t \in ThreadIds : ForwardRead(t)
    \/ \E t \in ThreadIds : ForwardWrite(t)
    \/ ChildWrite
    \/ ChildClose
    \/ ChildExit
    \/ \E d \in PopenInputs : PopenSend(d)

\* the forwarder hands bytes to a stream in bytes mode; the stream is neither
\* read nor terminated here, so it is taken as file-backed with select
ForwarderInit ==
    /\ StreamInit /\ encoding = "none" /\ kind = "file" /\ usePoll = FALSE
    /\ GuardsInit
    /\ \E cls \in {"popen", "mixin"} : ProducerInit(cls)
    /\ TaggedInit(1)

FwdSpec == ForwarderInit /\ [][ForwarderNext]_vars

GuardSpec == GuardInit /\ [][GuardNext]_vars

TaggedNext ==
    \/ \E p \in Producers, d \in LogInputs : LogSendCall(p, d)
    \/ \E p \in Producers : LogLine(p)
    \/ \E p \in Producers : LogLoopEnd(p)
    \/ \E p \in Producers : LogSendWrite(p)

\* a run with one stream per device, created with total = 1 or total = 2;
\* the streams are not terminated while the producers send
TaggedStreamsInit ==
    /\ StreamInit /\ kind = "file" /\ usePoll = FALSE
    /\ GuardsInit
    /\ ProducerInit("popen")
    /\ \E tot \in {1, 2} : TaggedInit(tot)

TaggedSpec == TaggedStreamsInit /\ [][TaggedNext]_vars

(* ======================= properties of the stream ======================= *)
RECURSIVE SentBytes(_)
SentBytes(args) ==
    IF args = << >> THEN << >> ELSE EncodeForSend(Head(args)) \o SentBytes(Tail(args))

RECURSIVE SentText(_)
SentText(args) == IF args = << >> THEN << >> ELSE Head(args).v \o SentText(Tail(args))

\* the bytes that read_nonblocking's return values stand for
ReceivedBytes == IF encoding = "none" THEN received ELSE Utf8(received)

\* the arguments of the send calls that have got as far as _fw.write
WrittenArgs == IF wpc = "write" THEN SubSeq(sendArgs, 1, Len(sendArgs) - 1) ELSE sendArgs

C1_State ==
    /\ ~termCalled => rres.kind # "EOF"
    /\ rres.kind = "EOF" => rres.errno = "EBADF" /\ frClosed
    /\ rpc = "blocked" =>
          /\ rtimeout = (IF rarg = -1 THEN DefaultTimeout ELSE rarg)
          /\ elapsed <= rtimeout
    /\ rpc = "blocked" /\ ~termCalled /\ ~Readable /\ elapsed >= rtimeout => ENABLED WaitTimeout

C1_Step ==
    /\ rpc = "blocked" /\ rpc' # "blocked" /\ ~termCalled /\ ~Readable =>
          \/ rres'.kind = "TIMEOUT" /\ elapsed = rtimeout
          \/ rres'.kind = "OSError" /\ rres'.errno # "EBADF"
    /\ rres'.kind = "TIMEOUT" /\ rres.kind # "TIMEOUT" /\ ~termCalled =>
          rpc = "blocked" /\ ~Readable /\ elapsed = rtimeout

\* C1: while terminate() has not been called, read_nonblocking never ends in
\* EOF; a readiness wait that finds the descriptor not ready ends in TIMEOUT
\* once the timeout (the argument, or self.timeout for -1) has elapsed and
\* never waits longer, for timeout 0 without waiting at all; EOF is raised
\* only for EBADF, on a closed descriptor.
C1_OpenStreamTimesOutNeverEOF == [] C1_State /\ [][C1_Step]_vars

C1_Witness ==
    /\ ~termCalled /\ kind = "pipe"
    /\ rpc = "idle" /\ rres.kind = "TIMEOUT"
    /\ sendArgs # << >>

C2_State ==
    /\ termDone => frClosed
    /\ rAfterTerm /\ rpc = "idle" => rres.kind = "EOF"
    /\ rAfterTerm /\ rpc # "idle" => rpc \in {"wait", "read"} /\ ENABLED ReaderNext

C2_Step ==
    rAfterTerm /\ rpc # "idle" /\ rpc' # rpc =>
        \/ rpc' = "idle" /\ rres'.kind = "EOF"
        \/ rpc = "wait" /\ rpc' = "read"

\* C2: once a terminate() call has returned, every read_nonblocking call that
\* begins afterwards ends in EOF: it never enters the timed wait, it can
\* always take its next step, and it ends after at most two steps (the failed
\* select, or poll and the failed read), so no such call hangs and none ends
\* in TIMEOUT or data.
C2_ReadAfterTerminateIsEOF == [] C2_State /\ [][C2_Step]_vars

C2_Witness == termDone /\ rAfterTerm /\ rpc = "idle" /\ rres.kind = "EOF"

\* C3: a send call that begins after terminate() has returned returns 0, and
\* no send call that overlaps a terminate() raises.
C3_SendAfterTerminateReturnsZero ==
    /\ wAfterTerm /\ wpc = "idle" => wres = Returns(0)
    /\ wres.kind # "raise"

\* C4: on a stream on which terminate() has not been called, what the reader
\* has been given, followed by what the decoder holds back, what is in the
\* channel and what is buffered in _fw, is exactly the bytes of the send
\* calls in call order; in bytes mode the reader is given those bytes, in
\* text mode the text that was sent; each send returns the number of bytes
\* it wrote.
C4_SendThenReadRoundTrip ==
    ~termCalled =>
        /\ ReceivedBytes \o decBuf \o channel \o fwBuf = SentBytes(WrittenArgs)
        /\ encoding = "utf8" /\ decBuf = << >> /\ channel = << >> /\ fwBuf = << >>
              => received = SentText(WrittenArgs)
        /\ wpc = "idle" /\ sendArgs # << >> =>
              wres = Returns(Len(EncodeForSend(sendArgs[Len(sendArgs)])))

C4_Witness ==
    /\ ~termCalled /\ encoding = "utf8"
    /\ wpc = "idle" /\ rpc = "idle"
    /\ sendArgs = << Str(<< CharEacute >>), Str(<< CharA, LF >>) >>
    /\ received = << CharEacute, CharA, LF >>

\* C9: the OS error of the wait or the read decides the outcome: EIO gives an
\* empty result without an exception, EBADF gives EOF, any other error is
\* re-raised as it is.
C9_ErrnoDecidesOutcome ==
    /\ rres.errno = "EIO" => rres.kind = "data" /\ rres.val = << >>
    /\ rres.errno = "EBADF" => rres.kind = "EOF"
    /\ rres.errno \notin {None, "EIO", "EBADF"} => rres.kind = "OSError"

\* the records the send calls made so far have handed to logging.info
RECURSIVE SendRecords(_)
SendRecords(args) ==
    IF args = << >> THEN << >>
    ELSE LogRecords(source, Head(args)) \o SendRecords(Tail(args))

\* C12: a read_nonblocking call that has returned data with a non-blank line
\* has handed a record to logging.info, so that the sink holds more than the
\* records of the send calls.
C12_ReadsAreLoggedToSink ==
    rpc = "idle" /\ rres.kind = "data" /\ NonBlank(rres.val) =>
        Len(sinkLog) > Len(SendRecords(sendArgs))

\* C13: terminate() never raises, and when a call has returned and none is in
\* flight, the read end and the write end are both closed, also when closing
\* one of them failed.
C13_TerminateClosesBothEnds ==
    termDone /\ tpc = "idle" => frClosed /\ fwClosed

C15_State ==
    /\ termDone \/ tpc = "closeFw" => frClosed
    /\ frClosed /\ rpc = "wait" => ENABLED WaitEnter
    /\ frClosed /\ rpc = "read" => ENABLED ReadError("EBADF")
    /\ frClosed /\ rpc = "blocked" =>
          /\ elapsed <= rtimeout
          /\ IF elapsed = rtimeout
             THEN ENABLED WaitTimeout /\ ~ ENABLED WaitTick
             ELSE ENABLED WaitTick

C15_Step ==
    /\ frClosed => frClosed'
    /\ frClosed /\ rpc = "wait" /\ rpc' # rpc =>
          \/ rpc' = "idle" /\ rres'.kind = "EOF"
          \/ rpc' = "read"
    /\ frClosed /\ rpc = "read" /\ rpc' # rpc =>
          rpc' = "idle" /\ rres'.kind = "EOF"
    /\ frClosed /\ rpc = "blocked" /\ rpc' # rpc =>
          \/ rpc' = "idle" /\ rres'.kind \in {"TIMEOUT", "EOF", "OSError"}
          \/ rpc' = "read"
    /\ frClosed /\ rpc = "blocked" /\ rpc' = rpc /\ elapsed' # elapsed =>
          elapsed' = elapsed + 1 /\ elapsed' <= rtimeout

\* C15: terminate() closes the read descriptor with its first statement and
\* the descriptor stays closed.  A read_nonblocking call in flight at that
\* moment can always take its next step: in the readiness wait it waits no
\* longer than its timeout and then ends, in TIMEOUT, EOF or an OSError; about
\* to read, it ends in EOF.  Every call that reaches the wait afterwards ends
\* in EOF after at most two steps, without waiting.
C15_InFlightReadEndsThenEOF == [] C15_State /\ [][C15_Step]_vars

\* the reader is still in the readiness wait it entered before terminate(),
\* which has returned, and its timeout has just run out
C15_Witness ==
    /\ rpc = "blocked" /\ frClosed /\ termDone
    /\ rtimeout > 0 /\ elapsed = rtimeout

(* ======================= properties of the guard ======================== *)
IsExit(op) == op \in {"close", "exit", "del"}

C5_Step ==
    /\ lastOp'.op = "enter" /\ lastOp'.active =>
          /\ gStdout' = gStdout
          /\ sysStdout' = sysStdout
          /\ gStdout'[lastOp'.g] = gEntry[lastOp'.g]
    /\ IsExit(lastOp'.op) /\ ~lastOp'.active =>
          /\ gStdout' = gStdout
          /\ sysStdout' = sysStdout

\* C5: entering a guard that is already active changes neither its remembered
\* target nor sys.stdout, and the remembered target is still the one that was
\* sys.stdout before the entry that took effect; close, __exit__ and __del__
\* on an inactive guard change neither.
C5_EnterAndExitIdempotent == [][C5_Step]_vars

C5_Witness ==
    /\ lastOp.op = "enter" /\ lastOp.active
    /\ gStdout[lastOp.g] = OriginalStdout
    /\ sysStdout = lastOp.g

C6_Step ==
    IsExit(lastOp'.op) /\ lastOp'.active =>
        /\ sysStdout' = gEntry[lastOp'.g]
        /\ gStdout'[lastOp'.g] = None

\* C6: close, __exit__ or __del__ on an active guard, whatever writes and
\* flushes came after the entry, makes sys.stdout the target that was
\* installed when the guard was entered and clears the remembered target.
C6_ExitRestoresEntryTarget == [][C6_Step]_vars

C6_Witness ==
    /\ lastOp.op = "exit" /\ lastOp.active
    /\ sendArgs # << >>
    /\ sysStdout = OriginalStdout
    /\ gStdout[lastOp.g] = None

C10_Step ==
    lastOp'.op = "write" /\ lastOp'.active =>
        IF lastOp'.data.v # << >>
        THEN /\ sendArgs' = Append(sendArgs, lastOp'.data)
             /\ channel' = channel \o Utf8(lastOp'.data.v)
             /\ sysStdout' = lastOp'.g
        ELSE /\ sysStdout' = sysStdout
             /\ UNCHANGED streamVars

\* C10: a write of non-empty data on an active guard makes exactly one send
\* call on the stream, with the data as given, which puts the data's bytes
\* into the channel, and leaves the guard in sys.stdout even when logging
\* replaced sys.stdout during the send; a write of empty data changes neither
\* sys.stdout nor the stream.
C10_WriteForwardsAndReasserts == [][C10_Step]_vars

C10_Witness ==
    /\ lastOp.op = "write" /\ lastOp.active
    /\ lastOp.sink = SinkStdout
    /\ sendArgs # << >> /\ sendArgs[Len(sendArgs)] = lastOp.data
    /\ sysStdout = lastOp.g

C16_State == gStdout[TheGuard] # None => sysStdout = TheGuard

C16_Step ==
    gStdout[TheGuard] # None /\ gStdout'[TheGuard] # None =>
        gStdout'[TheGuard] = gStdout[TheGuard]

\* C16: after any sequence of enter, write, flush, close, __exit__ and __del__
\* on the one guard of a process, the guard holds a remembered target only
\* while it is sys.stdout itself, and while it holds one, no operation
\* replaces it by another.
C16_RememberedOnlyWhileInstalled == [] C16_State /\ [][C16_Step]_vars

\* the guard, active and written to, has been entered once more
C16_Witness ==
    /\ lastOp.op = "enter" /\ lastOp.g = TheGuard /\ lastOp.active
    /\ sendArgs # << >>
    /\ gStdout[TheGuard] = OriginalStdout
    /\ sysStdout = TheGuard

\* C19: when the two guards have been entered one inside the other and both
\* have exited, in whatever order, sys.stdout is the stream it was before the
\* first entry and not one of the guards.
C19_BothExitedRestoresOriginal ==
    /\ \A g \in Guards : gEntry[g] # None /\ gStdout[g] = None
    /\ \E g, h \in Guards : g # h /\ gEntry[h] = g
    => sysStdout = OriginalStdout

\* C20: the guard is sys.stdout only while it holds a remembered target, and
\* its remembered target is never the guard itself.
C20_InstalledOnlyWhileRemembering ==
    /\ sysStdout = TheGuard => gStdout[TheGuard] # None
    /\ gStdout[TheGuard] # TheGuard

(* ===================== properties of the forwarder ====================== *)
\* only caller c1 has called create_forward_io_thread
SingleCaller == nCalls["c2"] = 0

\* C7, as claimed, for a subprocess adapter: a call that finds no forwarder
\* thread running creates and starts one, so a call is a no-op only when a
\* forwarder thread was running when it was made.
C7_NoopOnlyWhileRunning ==
    producer = "popen" /\ SingleCaller /\ cpc["c1"] = "idle" /\ cres["c1"] = "noop"
        => cLive["c1"]

C7_State ==
    SingleCaller =>
        /\ Len(threads) <= 1
        /\ \A t \in 1..Len(threads) : threads[t].daemon
        /\ cpc["c1"] = "idle" /\ cres["c1"] = "started" =>
              Len(threads) = 1 /\ fwdThread = 1 /\ threads[1].st # "new"
        /\ cres["c1"] \notin {"RuntimeError"}

C7_Step ==
    SingleCaller' /\ nCalls'["c1"] # nCalls["c1"] =>
        IF threads # << >>
        THEN cres'["c1"] = "noop" /\ cpc'["c1"] = "idle" /\ threads' = threads
                /\ fwdThread' = fwdThread
        ELSE cpc'["c1"] = "create"

\* C7, amended: with one caller, a call made when a forwarder thread has been
\* created before, running or finished, is a no-op; a call made when none has
\* been created creates one daemon thread and starts it; the producer never
\* has more than one forwarder thread, running or not.
C7_AtMostOneForwarderEver == [] C7_State /\ [][C7_Step]_vars

C7_Witness ==
    /\ SingleCaller /\ nCalls["c1"] = 2
    /\ cpc["c1"] = "idle" /\ cres["c1"] = "noop"
    /\ Len(threads) = 1 /\ threads[1].st = "done"

\* C8: when the forwarder thread of a subprocess adapter has finished, the
\* stream has been given every byte the child wrote.
C8_ChildOutputForwarded ==
    producer = "popen" /\ fwdThread # NoThread /\ threads[fwdThread].st = "done" =>
        SentBytes(sendArgs) = Hello /\ channel = Hello

\* C17: however the calls of the two callers interleave, the producer creates
\* at most one forwarder thread, and no call fails in starting it.
C17_ConcurrentStartCreatesOne ==
    /\ Len(threads) <= 1
    /\ \A c \in Callers : cres[c] # "RuntimeError"

\* C18: on a producer that does not override _forward_io, a call of
\* create_forward_io_thread that has returned has failed with
\* NotImplementedError, and the producer records no forwarder thread.
C18_MixinStartFailsVisibly ==
    producer = "mixin" /\ SingleCaller /\ cpc["c1"] = "idle" /\ nCalls["c1"] > 0 =>
        /\ cres["c1"] = "NotImplementedError"
        /\ fwdThread = NoThread

\* what the claim has a send call write: text as UTF-8 followed by one newline
\* byte, binary data as it is
ClaimedStdinBytes(d) == IF d.t = "str" THEN Utf8(d.v) \o << LF >> ELSE d.v

RECURSIVE ClaimedStdin(_)
ClaimedStdin(args) ==
    IF args = << >> THEN << >>
    ELSE ClaimedStdinBytes(Head(args)) \o ClaimedStdin(Tail(args))

\* C14: the child's standard input has been given, for every send call of the
\* subprocess adapter in call order, the UTF-8 encoding of the data followed by
\* one newline byte when the data is text, and exactly the bytes of the data
\* when it is binary.
C14_PopenSendWritesExactly == childStdin = ClaimedStdin(stdinArgs)

(* =================== properties of the tagged streams =================== *)
\* the lines of the text given to the c-th send call of thread p
LinesOf(p, c) == SplitLines(pArgs[p][c].v, << >>, << >>)

\* the text '[dut-<p>]'
TagText(p) == << 91, 100, 117, 116, 45, 48 + p, 93 >>

\* the positions in the sink of the records of the c-th send call of thread p
RecordsOf(p, c) == { i \in 1..Len(sinkFrom) : sinkFrom[i].p = p /\ sinkFrom[i].call = c }

\* C11: every record in the logging sink is one whole non-blank line of one
\* send call, with the prefix '[dut-<count>]' of the stream it was sent on when
\* total > 1 and without a prefix when total = 1; the records of one thread
\* are in the order of its calls and of the lines within a call; a send call
\* that has returned has left one record for each of its non-blank lines and
\* none for a blank one.
C11_SinkRecordsAreWholeTaggedLines ==
    /\ Len(sinkFrom) = Len(sinkLog)
    /\ \A i \in 1..Len(sinkLog) :
          LET f == sinkFrom[i]
              line == LinesOf(f.p, f.call)[f.line]
          IN /\ f.call \in 1..Len(pArgs[f.p])
             /\ f.line \in 1..Len(LinesOf(f.p, f.call))
             /\ NonBlank(line)
             /\ sinkLog[i] = IF total > 1 THEN TagText(f.p) \o line ELSE line
    /\ \A i, j \in 1..Len(sinkFrom) :
          i < j /\ sinkFrom[i].p = sinkFrom[j].p =>
             \/ sinkFrom[i].call < sinkFrom[j].call
             \/ sinkFrom[i].call = sinkFrom[j].call /\ sinkFrom[i].line < sinkFrom[j].line
    /\ \A p \in Producers : \A c \in 1..Len(pArgs[p]) :
          c < Len(pArgs[p]) \/ ppc[p] \in {"write", "idle"} =>
             Cardinality(RecordsOf(p, c))
                = Cardinality({ k \in 1..Len(LinesOf(p, c)) : NonBlank(LinesOf(p, c)[k]) })

\* both threads have sent on streams with tags, and a record of one thread
\* lies between the two records of the other's call
C11_Witness ==
    /\ total = 2
    /\ \A p \in Producers : ppc[p] = "idle" /\ pArgs[p] # << >>
    /\ \E i, j, k \in 1..Len(sinkFrom) :
          /\ i < j /\ j < k
          /\ sinkFrom[i].p = sinkFrom[k].p /\ sinkFrom[i].call = sinkFrom[k].call
          /\ sinkFrom[j].p # sinkFrom[i].p

====
